---- MODULE Spec2Model ----
(***************************************************************************)
(* A model of the food_drop package: Board, ScoreManager, LevelManager,    *)
(* GameState and the tick engine of Game.  Numbers that are floats in the  *)
(* source (multiplier, drop chance) are kept as integer hundredths.        *)
(***************************************************************************)
EXTENDS Integers, Sequences, FiniteSets, TLC

VARIABLES
    config,         \* Game.config (DropConfig)
    board,          \* Game.board (Board): width, height, grid, items
    player,         \* Game.player (Player): x, y, score, lives
    game_state,     \* Game.game_state (GameState)
    score_manager,  \* Game.score_manager (ScoreManager)
    level_manager,  \* Game.level_manager (LevelManager)
    run_state,      \* the locals of Game.run: position, move_iter, ticks left, stream
    new_items,      \* the spawn batch handed to the last _tick
    raised,         \* the exception the last call ended with ("none" when it returned)
    last_call       \* the call that made the last step: op, arg, result

vars == <<config, board, player, game_state, score_manager, level_manager,
          run_state, new_items, raised, last_call>>

(***************************************************************************)
(* Bounds of the model.                                                    *)
(***************************************************************************)
MaxCells == 4
MaxTicks == 4
MaxMoves == 3
MaxRunTicks == 3
MaxTotal == 13
MaxLevel == 4
MaxPoints == 2
MaxCalls == 4
MaxDuration == 2

(***************************************************************************)
(* Generic helpers: Python dicts are functions with a finite domain.       *)
(***************************************************************************)
EmptyMap == [k \in {} |-> 0]

DictPut(d, k, v) == [j \in DOMAIN d \cup {k} |-> IF j = k THEN v ELSE d[j]]

DictPop(d, k) == [j \in DOMAIN d \ {k} |-> d[j]]

DictGet(d, k, default) == IF k \in DOMAIN d THEN d[k] ELSE default

Min(a, b) == IF a <= b THEN a ELSE b

Max(a, b) == IF a >= b THEN a ELSE b

\* int(n / d) of Python for d > 0: truncation toward zero
PyInt(n, d) == IF n >= 0 THEN n \div d ELSE -((-n) \div d)

(***************************************************************************)
(* items.py: the four item kinds.  One record shape for all; a field a     *)
(* kind does not have is 0 or "".                                          *)
(***************************************************************************)
DefaultDamage == 999
DefaultDuration == 10
DefaultPowerUpPoints == 5

FoodItem(x, y, symbol, points) ==
    [kind |-> "food", x |-> x, y |-> y, symbol |-> symbol, points |-> points,
     damage |-> 0, duration |-> 0, timer |-> 0, effect |-> "", collected |-> FALSE]

ForbiddenItem(x, y, symbol, damage) ==
    [kind |-> "forbidden", x |-> x, y |-> y, symbol |-> symbol, points |-> 0,
     damage |-> damage, duration |-> 0, timer |-> 0, effect |-> "", collected |-> FALSE]

PowerUpItem(x, y, symbol, points, duration, effect) ==
    [kind |-> "powerup", x |-> x, y |-> y, symbol |-> symbol, points |-> points,
     damage |-> 0, duration |-> duration, timer |-> duration, effect |-> effect,
     collected |-> FALSE]

BonusFoodItem(x, y, symbol, points) ==
    [kind |-> "bonus", x |-> x, y |-> y, symbol |-> symbol, points |-> points,
     damage |-> 0, duration |-> 0, timer |-> 0, effect |-> "", collected |-> FALSE]

\* isinstance(item, FoodItem): BonusFoodItem is a subclass of FoodItem
IsFoodItem(e) == e.kind \in {"food", "bonus"}

IsForbiddenItem(e) == e.kind = "forbidden"

IsPowerUpItem(e) == e.kind = "powerup"

\* CollectibleMixin.collect
collect(e) == [e EXCEPT !.collected = TRUE]

(***************************************************************************)
(* board.py                                                                *)
(***************************************************************************)
EmptySymbol == "."

EmptyGrid(width, height) ==
    [y \in 0..(height - 1) |-> [x \in 0..(width - 1) |-> EmptySymbol]]

NewBoard(width, height) ==
    [width |-> width, height |-> height,
     grid |-> EmptyGrid(width, height), items |-> EmptyMap]

reset(b) == [b EXCEPT !.grid = EmptyGrid(b.width, b.height), !.items = EmptyMap]

place(b, e) ==
    [b EXCEPT !.grid[e.y][e.x] = e.symbol,
              !.items = DictPut(b.items, <<e.x, e.y>>, e)]

\* a variant that leaves the mapping entry behind
clear_cell_grid_only(b, x, y) == [b EXCEPT !.grid[y][x] = EmptySymbol]

clear_cell(b, x, y) ==
    [b EXCEPT !.grid[y][x] = EmptySymbol,
              !.items = DictPop(b.items, <<x, y>>)]

\* a variant that rebuilds the item in its old row
AdvancedSameRow(e) ==
    CASE e.kind = "food" -> FoodItem(e.x, e.y, e.symbol, e.points)
      [] e.kind = "bonus" -> BonusFoodItem(e.x, e.y, e.symbol, e.points)
      [] e.kind = "forbidden" -> ForbiddenItem(e.x, e.y, e.symbol, 0)
      [] e.kind = "powerup" ->
            PowerUpItem(e.x, e.y, e.symbol, e.points, DefaultDuration, "speed")

\* type(entity)(x, new_y, entity.symbol, getattr(entity, "points", 0)): the fourth
\* positional argument is points for Food/BonusFood/PowerUp and damage for
\* Forbidden (which has no points attribute, so it gets 0); every other field
\* takes the constructor's default.
Advanced(e) ==
    CASE e.kind = "food" -> FoodItem(e.x, e.y + 1, e.symbol, e.points)
      [] e.kind = "bonus" -> BonusFoodItem(e.x, e.y + 1, e.symbol, e.points)
      [] e.kind = "forbidden" -> ForbiddenItem(e.x, e.y + 1, e.symbol, 0)
      [] e.kind = "powerup" ->
            PowerUpItem(e.x, e.y + 1, e.symbol, e.points, DefaultDuration, "speed")

\* the first loop of drop_items: clear_cell on every tracked position
RECURSIVE ClearAll(_, _)
ClearAll(b, ps) ==
    IF ps = {} THEN b
    ELSE LET p == CHOOSE q \in ps : TRUE
         IN ClearAll(clear_cell(b, p[1], p[2]), ps \ {p})

\* new_positions after the first loop: the advanced items that stay on the board
AdvancedPositions(b) ==
    LET stay == {p \in DOMAIN b.items : p[2] + 1 < b.height}
    IN [q \in {<<p[1], p[2] + 1>> : p \in stay} |-> Advanced(b.items[<<q[1], q[2] - 1>>])]

\* the second loop: new_positions[(entity.x, entity.y)] = entity, in list order
RECURSIVE AddSpawned(_, _)
AddSpawned(np, batch) ==
    IF batch = <<>> THEN np
    ELSE AddSpawned(DictPut(np, <<Head(batch).x, Head(batch).y>>, Head(batch)), Tail(batch))

\* the third loop: _place every entity of new_positions
RECURSIVE PlaceAll(_, _)
PlaceAll(b, np) ==
    IF DOMAIN np = {} THEN b
    ELSE LET p == CHOOSE q \in DOMAIN np : TRUE
         IN PlaceAll(place(b, np[p]), DictPop(np, p))

\* the returned list, as the set of the entities that fell off
Missed(b) == {b.items[p] : p \in {q \in DOMAIN b.items : q[2] + 1 >= b.height}}

\* a variant that clears the old cells after it has placed the new items
drop_items_clear_last(b, batch) ==
    ClearAll(PlaceAll(b, AddSpawned(AdvancedPositions(b), batch)), DOMAIN b.items)

drop_items(b, batch) ==
    PlaceAll(ClearAll(b, DOMAIN b.items), AddSpawned(AdvancedPositions(b), batch))

\* a variant without the clamp
move_player_unclamped(b, p, dx) == [p EXCEPT !.x = p.x + dx]

move_player(b, p, dx) ==
    [p EXCEPT !.x = Min(Max(p.x + dx, 0), b.width - 1)]

(***************************************************************************)
(* managers.py: ScoreManager.  multiplier is in hundredths (100 is 1.0).   *)
(* observers names the callbacks attached; the callbacks of Game act on    *)
(* game_state and are applied by Notify... below.                          *)
(***************************************************************************)
NewScoreManager ==
    [total_score |-> 0, multiplier |-> 100, combo_count |-> 0, stats |-> EmptyMap,
     observers |-> {}]

increment_stat(stats, key, amount) == DictPut(stats, key, DictGet(stats, key, 0) + amount)

\* a variant that forgets the scale of the multiplier
EffectivePointsUnscaled(sm, points) == points * sm.multiplier

\* int(points * self._multiplier)
EffectivePoints(sm, points) == PyInt(points * sm.multiplier, 100)

add_points(sm, points, item_type) ==
    LET effective_points == EffectivePoints(sm, points)
    IN [sm EXCEPT
          !.total_score = @ + effective_points,
          !.stats = increment_stat(increment_stat(@, item_type \o "_collected", 1),
                                   "total_points", effective_points),
          !.combo_count = IF effective_points > 0 THEN @ + 1 ELSE 0]

\* the payload add_points hands to its observers
ScoreChangedData(sm, points, item_type) ==
    [k \in {"points", "total", "item_type"} |->
        CASE k = "points" -> EffectivePoints(sm, points)
          [] k = "total" -> sm.total_score + EffectivePoints(sm, points)
          [] k = "item_type" -> item_type]

\* a variant without the clamp at 1.0
set_multiplier_unclamped(sm, multiplier) == [sm EXCEPT !.multiplier = multiplier]

set_multiplier(sm, multiplier) == [sm EXCEPT !.multiplier = Max(100, multiplier)]

MultiplierChangedData(multiplier) == [k \in {"multiplier"} |-> Max(100, multiplier)]

reset_combo(sm) == [sm EXCEPT !.combo_count = 0]

(***************************************************************************)
(* managers.py: LevelManager.  levels_config maps a level number to the    *)
(* dict of its catalog entry; drop chances are in hundredths.              *)
(***************************************************************************)
BaseThreshold == 5
ThresholdStep == 2
DefaultBaseDropChance == 30
DropChanceStep == 5
DropChanceCap == 90

NewLevelManager ==
    [current_level |-> 1, items_threshold |-> 0, items_collected_for_level |-> 0,
     levels_config |-> EmptyMap, config |-> EmptyMap, observers |-> {}]

\* level_config.get("items_required", 5 + (level_num - 1) * 2)
ItemsRequired(lm, level_num) ==
    DictGet(DictGet(lm.levels_config, level_num, EmptyMap), "items_required",
            BaseThreshold + (level_num - 1) * ThresholdStep)

update_threshold_for_current_level(lm) ==
    [lm EXCEPT !.items_threshold = ItemsRequired(lm, lm.current_level),
               !.items_collected_for_level = 0]

RECURSIVE SumItemsRequired(_, _)
SumItemsRequired(lm, upto) ==
    IF upto < 1 THEN 0 ELSE ItemsRequired(lm, upto) + SumItemsRequired(lm, upto - 1)

get_total_items_for_previous_levels(lm) == SumItemsRequired(lm, lm.current_level - 1)

\* the value check_level_up_by_items returns
LevelsUp(lm, total_items_collected) ==
    total_items_collected - get_total_items_for_previous_levels(lm) >= lm.items_threshold

\* a variant that goes on to the next level while the total allows it, once more
check_level_up_twice(lm, total_items_collected) ==
    LET once == IF LevelsUp(lm, total_items_collected)
                THEN update_threshold_for_current_level([lm EXCEPT !.current_level = @ + 1])
                ELSE lm
    IN IF LevelsUp(lm, total_items_collected) /\ LevelsUp(once, total_items_collected)
       THEN update_threshold_for_current_level([once EXCEPT !.current_level = @ + 1])
       ELSE once

check_level_up_by_items(lm, total_items_collected) ==
    IF LevelsUp(lm, total_items_collected)
    THEN update_threshold_for_current_level([lm EXCEPT !.current_level = @ + 1])
    ELSE lm

LevelUpData(lm) ==
    [k \in {"level", "items_threshold"} |->
        IF k = "level" THEN lm.current_level ELSE lm.items_threshold]

load_config(lm, cfg) ==
    update_threshold_for_current_level(
        [lm EXCEPT !.config = [k \in DOMAIN @ \cup DOMAIN cfg |->
                                  IF k \in DOMAIN cfg THEN cfg[k] ELSE @[k]],
                   !.levels_config = DictGet(cfg, "levels", EmptyMap)])

get_level_config(lm) == DictGet(lm.levels_config, lm.current_level, EmptyMap)

\* a variant without the cap
get_drop_chance_uncapped(lm) ==
    LET base_chance == DictGet(lm.config, "base_drop_chance", DefaultBaseDropChance)
        level_chance == DictGet(get_level_config(lm), "drop_chance", base_chance)
    IN level_chance + (lm.current_level - 1) * DropChanceStep

get_drop_chance(lm) ==
    LET base_chance == DictGet(lm.config, "base_drop_chance", DefaultBaseDropChance)
        level_chance == DictGet(get_level_config(lm), "drop_chance", base_chance)
    IN Min(level_chance + (lm.current_level - 1) * DropChanceStep, DropChanceCap)

(***************************************************************************)
(* game_state.py and entities.py                                           *)
(***************************************************************************)
DefaultLives == 3

NewGameState ==
    [score |-> 0, lives |-> DefaultLives, level |-> 1, tick_count |-> 0,
     missed_count |-> 0, collected_items |-> <<>>, active_powerups |-> EmptyMap]

\* a variant that leaves the lives out of the dict
to_dict_without_lives(gs) ==
    [k \in {"score", "level", "tick_count", "missed_count", "collected_items",
            "active_powerups"} |->
        CASE k = "score" -> gs.score
          [] k = "level" -> gs.level
          [] k = "tick_count" -> gs.tick_count
          [] k = "missed_count" -> gs.missed_count
          [] k = "collected_items" -> gs.collected_items
          [] k = "active_powerups" -> DOMAIN gs.active_powerups]

\* GameState.to_dict: collected_items is copied; active_powerups becomes the list of
\* its keys, kept here as their set
to_dict(gs) ==
    [k \in {"score", "lives", "level", "tick_count", "missed_count", "collected_items",
            "active_powerups"} |->
        CASE k = "score" -> gs.score
          [] k = "lives" -> gs.lives
          [] k = "level" -> gs.level
          [] k = "tick_count" -> gs.tick_count
          [] k = "missed_count" -> gs.missed_count
          [] k = "collected_items" -> gs.collected_items
          [] k = "active_powerups" -> DOMAIN gs.active_powerups]

\* GameState.from_dict: data.get(key, default) for six keys; active_powerups is not
\* read
from_dict(gs, data) ==
    [gs EXCEPT !.score = DictGet(data, "score", 0),
               !.lives = DictGet(data, "lives", DefaultLives),
               !.level = DictGet(data, "level", 1),
               !.tick_count = DictGet(data, "tick_count", 0),
               !.missed_count = DictGet(data, "missed_count", 0),
               !.collected_items = DictGet(data, "collected_items", <<>>)]

\* a variant that mirrors the lives only
update_from_player_lives(gs, p) == [gs EXCEPT !.lives = p.lives]

update_from_player(gs, p) == [gs EXCEPT !.score = p.score, !.lives = p.lives]

NewPlayer(x, y) == [x |-> x, y |-> y, score |-> 0, lives |-> DefaultLives]

\* the lives setter: max(0, value)
SetLives(p, value) == [p EXCEPT !.lives = Max(0, value)]

(***************************************************************************)
(* game.py: Game.  A game is the record of its objects, g, with the        *)
(* exception the running call has raised ("none" while it has not).        *)
(***************************************************************************)
MissedLimit == 3

\* Game._on_score_changed, attached to the ScoreManager: called for every event
on_score_changed(gs, data) ==
    [gs EXCEPT !.collected_items = Append(@, DictGet(data, "item_type", "unknown"))]

\* Game._on_level_up, attached to the LevelManager
on_level_up(gs, data) == [gs EXCEPT !.level = DictGet(data, "level", 1)]

\* ScoreManager.notify_observers as seen from the game state
NotifyScoreObservers(sm, gs, data) ==
    IF "on_score_changed" \in sm.observers THEN on_score_changed(gs, data) ELSE gs

\* LevelManager.notify_observers as seen from the game state
NotifyLevelObservers(lm, gs, data) ==
    IF "on_level_up" \in lm.observers THEN on_level_up(gs, data) ELSE gs

\* Game.__init__
NewGame(cfg) ==
    LET lm0 == IF cfg.has_levels_config
               THEN load_config(NewLevelManager,
                        [k \in {"levels", "base_drop_chance"} |->
                            IF k = "levels" THEN cfg.levels_config ELSE cfg.drop_chance])
               ELSE NewLevelManager
    IN [config |-> cfg,
        board |-> NewBoard(cfg.width, cfg.height),
        game_state |-> NewGameState,
        score_manager |-> [NewScoreManager EXCEPT !.observers = {"on_score_changed"}],
        level_manager |-> [lm0 EXCEPT !.observers = {"on_level_up"}],
        player |-> SetLives(NewPlayer(cfg.width \div 2, cfg.height - 1), cfg.lives),
        raised |-> "none"]

apply_move(g, move) ==
    CASE move = "L" -> [g EXCEPT !.player = move_player(g.board, g.player, -1)]
      [] move = "R" -> [g EXCEPT !.player = move_player(g.board, g.player, 1)]
      [] OTHER -> g

\* a variant that keeps a power-up one tick longer
update_powerups_late(g) ==
    LET ticked == [k \in DOMAIN g.game_state.active_powerups |->
                     [g.game_state.active_powerups[k] EXCEPT !.timer = @ - 1]]
        expired == {k \in DOMAIN ticked : ~(ticked[k].timer >= 0)}
        gs1 == [g.game_state EXCEPT
                  !.active_powerups = [k \in DOMAIN ticked \ expired |-> ticked[k]]]
    IN IF "multiplier" \in expired
       THEN [g EXCEPT
               !.score_manager = set_multiplier(@, 100),
               !.game_state = NotifyScoreObservers(g.score_manager, gs1,
                                                   MultiplierChangedData(100))]
       ELSE [g EXCEPT !.game_state = gs1]

\* TimedMixin.tick on every active power-up, then the removal of the expired ones;
\* an expired "multiplier" resets the multiplier through set_multiplier, which
\* notifies the observers of the ScoreManager
update_powerups(g) ==
    LET ticked == [k \in DOMAIN g.game_state.active_powerups |->
                     [g.game_state.active_powerups[k] EXCEPT !.timer = @ - 1]]
        expired == {k \in DOMAIN ticked : ~(ticked[k].timer > 0)}
        gs1 == [g.game_state EXCEPT
                  !.active_powerups = [k \in DOMAIN ticked \ expired |-> ticked[k]]]
    IN IF "multiplier" \in expired
       THEN [g EXCEPT
               !.score_manager = set_multiplier(@, 100),
               !.game_state = NotifyScoreObservers(g.score_manager, gs1,
                                                   MultiplierChangedData(100))]
       ELSE [g EXCEPT !.game_state = gs1]

\* a variant that marks and scores the item and leaves it on its cell
CollectKeepCell(g, item_type) ==
    LET pos == <<g.player.x, g.player.y>>
        sm1 == add_points(g.score_manager, 1, item_type)
        gs1 == NotifyScoreObservers(g.score_manager, g.game_state,
                                    ScoreChangedData(g.score_manager, 1, item_type))
        p1 == [g.player EXCEPT !.score = sm1.total_score]
    IN [g EXCEPT !.score_manager = sm1,
                 !.player = p1,
                 !.game_state = update_from_player(gs1, p1),
                 !.board = [g.board EXCEPT !.items[pos] = collect(@)]]

\* a variant that scores the item's own points
CollectOwnPoints(g, item_type) ==
    LET pos == <<g.player.x, g.player.y>>
        points == g.board.items[pos].points
        sm1 == add_points(g.score_manager, points, item_type)
        gs1 == NotifyScoreObservers(g.score_manager, g.game_state,
                                    ScoreChangedData(g.score_manager, points, item_type))
        p1 == [g.player EXCEPT !.score = sm1.total_score]
    IN [g EXCEPT !.score_manager = sm1,
                 !.player = p1,
                 !.game_state = update_from_player(gs1, p1),
                 !.board = clear_cell([g.board EXCEPT !.items[pos] = collect(@)],
                                      pos[1], pos[2])]

\* a variant that activates a captured power-up under its effect
CollectActivate(g, item_type) ==
    LET pos == <<g.player.x, g.player.y>>
        item == g.board.items[pos]
        sm1 == add_points(g.score_manager, 1, item_type)
        gs1 == NotifyScoreObservers(g.score_manager, g.game_state,
                                    ScoreChangedData(g.score_manager, 1, item_type))
        p1 == [g.player EXCEPT !.score = sm1.total_score]
        gs2 == update_from_player(gs1, p1)
    IN [g EXCEPT !.score_manager = sm1,
                 !.player = p1,
                 !.game_state =
                     IF item_type = "powerup"
                     THEN [gs2 EXCEPT !.active_powerups = DictPut(@, item.effect, collect(item))]
                     ELSE gs2,
                 !.board = clear_cell([g.board EXCEPT !.items[pos] = collect(@)],
                                      pos[1], pos[2])]

\* the Food/BonusFood and PowerUp branches of _capture_items: item.collect(),
\* add_points, the score mirrors, clear_cell
Collect(g, item_type) ==
    LET pos == <<g.player.x, g.player.y>>
        sm1 == add_points(g.score_manager, 1, item_type)
        gs1 == NotifyScoreObservers(g.score_manager, g.game_state,
                                    ScoreChangedData(g.score_manager, 1, item_type))
        p1 == [g.player EXCEPT !.score = sm1.total_score]
    IN [g EXCEPT !.score_manager = sm1,
                 !.player = p1,
                 !.game_state = update_from_player(gs1, p1),
                 !.board = clear_cell([g.board EXCEPT !.items[pos] = collect(@)],
                                      pos[1], pos[2])]

\* the tail of _capture_items: the level-up check and the drop-chance mirror
LevelStep(g) ==
    LET items_collected ==
            Cardinality({i \in DOMAIN g.game_state.collected_items :
                            g.game_state.collected_items[i] = "food"})
        up == LevelsUp(g.level_manager, items_collected)
        lm1 == check_level_up_by_items(g.level_manager, items_collected)
        gs1 == IF up THEN NotifyLevelObservers(lm1, g.game_state, LevelUpData(lm1))
               ELSE g.game_state
    IN [g EXCEPT !.level_manager = lm1,
                 !.game_state = gs1,
                 !.config.drop_chance =
                     IF g.config.has_item_factory THEN @ ELSE get_drop_chance(lm1)]

\* a variant in which a Forbidden item costs one life
capture_items_one_life(g) ==
    LET pos == <<g.player.x, g.player.y>>
        item == g.board.items[pos]
    IN IF pos \notin DOMAIN g.board.items THEN g
       ELSE IF IsForbiddenItem(item)
       THEN [g EXCEPT !.player = SetLives(@, @.lives - 1),
                      !.board = clear_cell(@, pos[1], pos[2]),
                      !.raised = "forbidden"]
       ELSE IF IsFoodItem(item) THEN LevelStep(Collect(g, "food"))
       ELSE IF IsPowerUpItem(item) THEN LevelStep(Collect(g, "powerup"))
       ELSE LevelStep(g)

capture_items(g) ==
    LET pos == <<g.player.x, g.player.y>>
        item == g.board.items[pos]
    IN IF pos \notin DOMAIN g.board.items THEN g
       ELSE IF IsForbiddenItem(item)
       THEN [g EXCEPT !.player = SetLives(@, 0),
                      !.board = clear_cell(@, pos[1], pos[2]),
                      !.raised = "forbidden"]
       ELSE IF IsFoodItem(item) THEN LevelStep(Collect(g, "food"))
       ELSE IF IsPowerUpItem(item) THEN LevelStep(Collect(g, "powerup"))
       ELSE LevelStep(g)

\* a variant that counts every item that fell off
handle_collisions_all(g, missed) ==
    [g EXCEPT !.game_state.missed_count = @ + Cardinality(missed)]

\* a variant in which a missed Food item also costs a life
handle_collisions_life(g, missed) ==
    LET n == Cardinality({e \in missed : ~IsForbiddenItem(e) /\ IsFoodItem(e)})
    IN [g EXCEPT !.game_state.missed_count = @ + n,
                 !.player = SetLives(@, @.lives - n)]

handle_collisions(g, missed) ==
    [g EXCEPT !.game_state.missed_count =
        @ + Cardinality({e \in missed : ~IsForbiddenItem(e) /\ IsFoodItem(e)})]

\* a variant whose missed check is strict
EndOfTickStrict(g) ==
    LET g1 == [g EXCEPT !.game_state.tick_count = @ + 1]
    IN [g1 EXCEPT !.raised =
          IF g1.game_state.missed_count > MissedLimit THEN "missed"
          ELSE IF g1.player.lives <= 0 THEN "lives"
          ELSE "none"]

\* a variant without the check of the lives
EndOfTickMissedOnly(g) ==
    LET g1 == [g EXCEPT !.game_state.tick_count = @ + 1]
    IN [g1 EXCEPT !.raised =
          IF g1.game_state.missed_count >= MissedLimit THEN "missed" ELSE "none"]

\* a variant that checks the lives first
EndOfTickLivesFirst(g) ==
    LET g1 == [g EXCEPT !.game_state.tick_count = @ + 1]
    IN [g1 EXCEPT !.raised =
          IF g1.player.lives <= 0 THEN "lives"
          ELSE IF g1.game_state.missed_count >= MissedLimit THEN "missed"
          ELSE "none"]

\* the end of _tick: the tick counter and the two terminal checks, in order
EndOfTick(g) ==
    LET g1 == [g EXCEPT !.game_state.tick_count = @ + 1]
    IN [g1 EXCEPT !.raised =
          IF g1.game_state.missed_count >= MissedLimit THEN "missed"
          ELSE IF g1.player.lives <= 0 THEN "lives"
          ELSE "none"]

\* a variant that counts the items that fell off before it captures
tick_count_first(g, batch, move) ==
    LET g1 == update_powerups(apply_move([g EXCEPT !.raised = "none"], move))
        missed == Missed(g1.board)
        g2 == capture_items(handle_collisions([g1 EXCEPT !.board = drop_items(g1.board, batch)],
                                              missed))
    IN IF g2.raised # "none" THEN g2
       ELSE EndOfTick(g2)

\* Game._tick(new_items, move)
tick(g, batch, move) ==
    LET g1 == update_powerups(apply_move([g EXCEPT !.raised = "none"], move))
        missed == Missed(g1.board)
        g2 == capture_items([g1 EXCEPT !.board = drop_items(g1.board, batch)])
    IN IF g2.raised # "none" THEN g2
       ELSE EndOfTick(handle_collisions(g2, missed))

\* the game of the current state, and its assignment to the next state
Game ==
    [config |-> config, board |-> board, player |-> player, game_state |-> game_state,
     score_manager |-> score_manager, level_manager |-> level_manager, raised |-> raised]

SetGame(g) ==
    /\ config' = g.config
    /\ board' = g.board
    /\ player' = g.player
    /\ game_state' = g.game_state
    /\ score_manager' = g.score_manager
    /\ level_manager' = g.level_manager
    /\ raised' = g.raised

(***************************************************************************)
(* Spec: a game without catalogs, driven by _tick(new_items, move) with    *)
(* any move and any batch of items of the four kinds at row 0.             *)
(***************************************************************************)
Moves == {"", "L", "R"}

\* the starting lives of the games
StartLives == {1, 2}

\* the kinds of the items that fall off the board in the gravity step of a tick
FallenKinds(b) == {e.kind : e \in Missed(b)}

ItemKinds == {"food", "forbidden", "powerup", "bonus"}

\* an item of each kind as a caller of _tick builds it
Spawned(kind, x) ==
    CASE kind = "food" -> FoodItem(x, 0, "f", 1)
      [] kind = "forbidden" -> ForbiddenItem(x, 0, "x", DefaultDamage)
      [] kind = "powerup" -> PowerUpItem(x, 0, "p", DefaultPowerUpPoints, 3, "multiplier")
      [] kind = "bonus" -> BonusFoodItem(x, 0, "b", 10)

Batches(width, kinds, rate) ==
    UNION {[1..n -> {Spawned(k, x) : k \in kinds, x \in 0..(width - 1)}] : n \in 0..rate}

PlainConfig(width, height, lives, drop_chance) ==
    [width |-> width, height |-> height, lives |-> lives,
     allowed_items |-> [sym \in {"f"} |-> 1], forbidden_items |-> {"x"},
     drop_rate |-> 1, drop_chance |-> drop_chance,
     has_item_factory |-> FALSE, items_config |-> EmptyMap,
     has_levels_config |-> FALSE, levels_config |-> EmptyMap]

\* no call of run is in progress
NoRun ==
    [pc |-> "idle", moves |-> <<>>, max_ticks |-> 0, move_iter |-> <<>>, ticks_left |-> 0,
     drop_chance |-> 0, spawned |-> <<>>]

Call(op, arg, result) == [op |-> op, arg |-> arg, result |-> result]

\* the widest board of a game driven tick by tick
MaxWidth == (MaxCells \div 2) + 1

Init ==
    /\ \E width \in 1..MaxWidth, height \in 1..MaxCells, lives \in StartLives :
          LET g == NewGame(PlainConfig(width, height, lives, 50))
          IN /\ width * height <= MaxCells
             /\ config = g.config
             /\ board = g.board
             /\ player = g.player
             /\ game_state = g.game_state
             /\ score_manager = g.score_manager
             /\ level_manager = g.level_manager
             /\ raised = g.raised
    /\ run_state = NoRun
    /\ new_items = <<>>
    /\ last_call = Call("init", 0, 0)

Tick ==
    /\ game_state.tick_count < MaxTicks
    /\ \E move \in Moves, batch \in Batches(config.width, ItemKinds, config.drop_rate) :
          /\ SetGame(tick(Game, batch, move))
          /\ new_items' = batch
    /\ last_call' = Call("tick", 0, FallenKinds(board))
    /\ UNCHANGED run_state

Next == Tick

Spec == Init /\ [][Next]_vars

(***************************************************************************)
(* SpecOver: games on the board of one row and three columns whose ticks   *)
(* get up to two items, so that the misses pass the limit while ticks are  *)
(* left.                                                                   *)
(***************************************************************************)
InitOver ==
    /\ \E lives \in StartLives :
          LET g == NewGame([PlainConfig(3, 1, lives, 50) EXCEPT !.drop_rate = 2])
          IN /\ config = g.config
             /\ board = g.board
             /\ player = g.player
             /\ game_state = g.game_state
             /\ score_manager = g.score_manager
             /\ level_manager = g.level_manager
             /\ raised = g.raised
    /\ run_state = NoRun
    /\ new_items = <<>>
    /\ last_call = Call("init", 0, 0)

\* batches of up to rate Food and Forbidden items, in columns from left to right
BatchesOver(width, rate) ==
    {b \in Batches(width, {"food", "forbidden"}, rate) :
        \A i \in 1..(Len(b) - 1) : b[i].x < b[i + 1].x}

\* _tick with such a batch of up to drop_rate items
TickOver ==
    /\ game_state.tick_count < MaxTicks
    /\ \E move \in Moves, batch \in BatchesOver(config.width, config.drop_rate) :
          /\ SetGame(tick(Game, batch, move))
          /\ new_items' = batch
    /\ last_call' = Call("tick", 0, FallenKinds(board))
    /\ UNCHANGED run_state

NextOver == TickOver

SpecOver == InitOver /\ [][NextOver]_vars

(***************************************************************************)
(* SpecPower: a game on the board of one cell whose caller activates       *)
(* power-ups between the ticks: it stores a PowerUpItem in                 *)
(* game_state.active_powerups and, for the key "multiplier", doubles the   *)
(* multiplier with set_multiplier.  The game itself never fills the map.   *)
(***************************************************************************)
PowerUpKeys == {"multiplier", "speed"}

InitPower ==
    /\ LET g == NewGame(PlainConfig(1, 1, DefaultLives, 50))
       IN /\ config = g.config
          /\ board = g.board
          /\ player = g.player
          /\ game_state = g.game_state
          /\ score_manager = g.score_manager
          /\ level_manager = g.level_manager
          /\ raised = g.raised
    /\ run_state = NoRun
    /\ new_items = <<>>
    /\ last_call = Call("init", 0, 0)

\* game_state.active_powerups[key] = PowerUpItem(..., duration), and
\* score_manager.set_multiplier(2.0) for the key "multiplier"
Activate ==
    /\ game_state.tick_count < MaxTicks
    /\ \E key \in PowerUpKeys \ DOMAIN game_state.active_powerups, duration \in 1..MaxDuration :
          LET item == PowerUpItem(0, 0, "p", DefaultPowerUpPoints, duration, key)
              gs1 == IF key = "multiplier"
                     THEN NotifyScoreObservers(score_manager, game_state,
                                               MultiplierChangedData(200))
                     ELSE game_state
          IN /\ game_state' = [gs1 EXCEPT !.active_powerups = DictPut(@, key, item)]
             /\ score_manager' = IF key = "multiplier"
                                  THEN set_multiplier(score_manager, 200)
                                  ELSE score_manager
             /\ last_call' = Call("activate", key, duration)
    /\ UNCHANGED <<config, board, player, level_manager, run_state, new_items, raised>>

\* the keys whose power-up the next tick removes
Expiring(gs) == {k \in DOMAIN gs.active_powerups : gs.active_powerups[k].timer <= 1}

\* _tick with any move and a batch of up to drop_rate Food and PowerUp items (every
\* such tick reaches the tick counter)
TickPower ==
    /\ game_state.tick_count < MaxTicks
    /\ \E move \in Moves,
          batch \in Batches(config.width, {"food", "powerup"}, config.drop_rate) :
          /\ SetGame(tick(Game, batch, move))
          /\ new_items' = batch
    /\ last_call' = Call("tick", Expiring(game_state), FallenKinds(board))
    /\ UNCHANGED run_state

NextPower == Activate \/ TickPower

SpecPower == InitPower /\ [][NextPower]_vars

(***************************************************************************)
(* SpecRun: one call of Game.run(moves, max_ticks) on a new game, the      *)
(* batches drawn from item_stream.                                         *)
(***************************************************************************)
\* ItemFactory.create_random_item(x, y, item_type, symbol) with a catalog that
\* holds the symbol under the type
create_random_item(catalog, x, y, item_type, symbol) ==
    LET item_data == catalog[item_type][symbol]
    IN CASE item_type = "food" -> FoodItem(x, y, symbol, 1)
         [] item_type = "forbidden" ->
               ForbiddenItem(x, y, symbol, DictGet(item_data, "damage", DefaultDamage))
         [] item_type = "powerup" ->
               PowerUpItem(x, y, symbol, DictGet(item_data, "points", DefaultPowerUpPoints),
                           DictGet(item_data, "duration", DefaultDuration),
                           DictGet(item_data, "effect", "speed"))
         [] item_type = "bonus" -> BonusFoodItem(x, y, symbol, 1)

\* item_factory and item_factory._config
UsesCatalog(cfg) == cfg.has_item_factory /\ cfg.items_config # EmptyMap

\* the items one draw of item_stream can build
StreamItems(cfg) ==
    IF UsesCatalog(cfg)
    THEN {create_random_item(cfg.items_config, x, 0, t, sym) :
            x \in 0..(cfg.width - 1),
            <<sym, t>> \in UNION {{<<sy, ty>> : sy \in DOMAIN cfg.items_config[ty]} :
                                    ty \in {"food", "forbidden"} \cap DOMAIN cfg.items_config}}
    ELSE {IF sym \in cfg.forbidden_items
          THEN ForbiddenItem(x, 0, sym, DefaultDamage)
          ELSE FoodItem(x, 0, sym, 1) :
            x \in 0..(cfg.width - 1),
            sym \in DOMAIN cfg.allowed_items \cup cfg.forbidden_items}

\* random.random() < drop_chance, random() in [0, 1): whether a draw can spawn, and
\* whether it can spawn nothing
CanSpawnInclusive(chance) == chance >= 0

CanSpawn(chance) == chance > 0

CanSkip(chance) == chance < 100

\* random.choice(symbols) on an empty list raises IndexError
StreamCrashes(cfg, chance) ==
    /\ CanSpawn(chance)
    /\ ~UsesCatalog(cfg)
    /\ cfg.drop_rate >= 1
    /\ StreamItems(cfg) = {}

\* the batches next(stream) can yield
StreamBatches(cfg, chance) ==
    (IF CanSkip(chance) THEN {<<>>} ELSE {})
    \cup (IF ~CanSpawn(chance) THEN {}
          ELSE IF UsesCatalog(cfg) /\ StreamItems(cfg) = {} THEN {<<>>}
          ELSE [1..cfg.drop_rate -> StreamItems(cfg)])

MoveSeqs == UNION {[1..n -> Moves] : n \in 0..MaxMoves}

\* the configurations of the runs: the forbidden-only 3x3 board with certain spawn,
\* the empty symbol sets with drop chance 0 and with drop chance 0.5, a board
\* with one food and one forbidden symbol, and a board of one column with batches
\* of two items
RunConfigs ==
    {[PlainConfig(3, 3, 1, 100) EXCEPT !.allowed_items = EmptyMap]}
    \cup {[PlainConfig(sz[1], sz[2], lives, chance) EXCEPT
              !.allowed_items = EmptyMap, !.forbidden_items = {}] :
            sz \in {<<1, 1>>, <<2, 2>>, <<3, 3>>}, lives \in StartLives, chance \in {0, 50}}
    \cup {PlainConfig(2, 2, lives, 50) : lives \in StartLives}
    \cup {[PlainConfig(1, 2, 2, 50) EXCEPT !.drop_rate = 2]}

InitRun ==
    /\ \E cfg \in RunConfigs :
          LET g == NewGame(cfg)
          IN /\ config = g.config
             /\ board = g.board
             /\ player = g.player
             /\ game_state = g.game_state
             /\ score_manager = g.score_manager
             /\ level_manager = g.level_manager
             /\ raised = g.raised
    /\ run_state = NoRun
    /\ new_items = <<>>
    /\ last_call = Call("init", 0, 0)

\* run up to the loop: move_iter, current_drop_chance, current_config, stream
RunStart ==
    /\ run_state.pc = "idle"
    /\ \E moves \in MoveSeqs, max_ticks \in 0..MaxRunTicks :
          run_state' =
              [pc |-> "running", moves |-> moves, max_ticks |-> max_ticks,
               move_iter |-> moves, ticks_left |-> max_ticks,
               drop_chance |-> IF level_manager.config # EmptyMap
                               THEN get_drop_chance(level_manager)
                               ELSE config.drop_chance,
               spawned |-> <<>>]
    /\ last_call' = Call("run", 0, 0)
    /\ UNCHANGED <<config, board, player, game_state, score_manager, level_manager,
                   new_items, raised>>

\* next(move_iter, "")
NextMove(rs) == IF rs.move_iter = <<>> THEN "" ELSE Head(rs.move_iter)

RestMoves(rs) == IF rs.move_iter = <<>> THEN <<>> ELSE Tail(rs.move_iter)

\* one iteration of the loop of run: a move, a batch, _tick
RunTick ==
    /\ run_state.pc = "running"
    /\ run_state.ticks_left > 0
    /\ \/ /\ StreamCrashes(config, run_state.drop_chance)
          /\ raised' = "IndexError"
          /\ run_state' = [run_state EXCEPT !.pc = "raised", !.move_iter = RestMoves(run_state)]
          /\ last_call' = Call("next(stream)", 0, 0)
          /\ UNCHANGED <<config, board, player, game_state, score_manager,
                         level_manager, new_items>>
       \/ \E batch \in StreamBatches(config, run_state.drop_chance) :
             LET g == tick(Game, batch, NextMove(run_state))
             IN /\ SetGame(g)
                /\ new_items' = batch
                /\ run_state' = [run_state EXCEPT
                                   !.pc = IF g.raised = "none" THEN "running" ELSE "raised",
                                   !.move_iter = RestMoves(run_state),
                                   !.ticks_left = @ - 1,
                                   !.spawned = Append(@, batch)]
                /\ last_call' = Call("tick", 0, FallenKinds(board))

\* the loop is over: run returns its result
RunReturn ==
    /\ run_state.pc = "running"
    /\ run_state.ticks_left = 0
    /\ run_state' = [run_state EXCEPT !.pc = "returned"]
    /\ last_call' = Call("return", 0, 0)
    /\ UNCHANGED <<config, board, player, game_state, score_manager, level_manager,
                   new_items, raised>>

NextRun == RunStart \/ RunTick \/ RunReturn

SpecRun == InitRun /\ [][NextRun]_vars

(***************************************************************************)
(* Properties of a tick (Spec).  In a step made by _tick, the unprimed     *)
(* variables are the game before the tick and the primed ones the game     *)
(* after it; the player's column after the move is player'.x.              *)
(***************************************************************************)
IsTickStep == last_call'.op = "tick"

\* the board after the gravity step of the tick that makes this step
AfterGravity == drop_items(board, new_items')

PlayerCell == <<player'.x, player'.y>>

\* the item on the player's cell after the gravity step is of one of the kinds
OnPlayerCell(kinds) ==
    /\ PlayerCell \in DOMAIN AfterGravity.items
    /\ AfterGravity.items[PlayerCell].kind \in kinds

\* the Food and BonusFood items in the last row, which the gravity step drops
FoodFalling ==
    Cardinality({p \in DOMAIN board.items :
                    p[2] = board.height - 1 /\ board.items[p].kind \in {"food", "bonus"}})

\* C1: a tick in which a Forbidden item is on the player's cell after the gravity
\* step sets lives to 0, clears the cell and raises GameOver, whatever the lives were
C1_ForbiddenCapture ==
    [][(IsTickStep /\ OnPlayerCell({"forbidden"}))
         => /\ player'.lives = 0
            /\ raised' = "forbidden"
            /\ PlayerCell \notin DOMAIN board'.items
            /\ board'.grid[player'.y][player'.x] = EmptySymbol]_vars

\* a Forbidden item was captured by a player who had two lives
C1_Witness ==
    /\ raised = "forbidden"
    /\ player.lives = 0
    /\ config.lives = 2
    /\ game_state.tick_count = 0
    /\ board.height = 1
    /\ new_items = <<Spawned("forbidden", player.x)>>

\* C3: in a tick missed_count grows by the number of Food and BonusFood items that
\* fell past the last row (by nothing when the tick ends in a Forbidden capture), and
\* lives change only by a Forbidden capture: a Forbidden item that falls changes neither
C3_MissedCountsFood ==
    [][IsTickStep
         => /\ game_state'.missed_count - game_state.missed_count \in {0, FoodFalling}
            /\ raised' # "forbidden"
                  => /\ game_state'.missed_count = game_state.missed_count + FoodFalling
                     /\ player'.lives = player.lives]_vars

\* a Forbidden item fell past the last row in a tick that counted no miss, after a
\* tick that had counted one
C3_Witness ==
    /\ last_call.op = "tick"
    /\ last_call.result = {"forbidden"}
    /\ raised = "none"
    /\ game_state.missed_count = 1
    /\ player.lives = config.lives

\* C4: the 3-missed GameOver is raised by the tick in which missed_count reaches 3
\* or more, and by no tick that ends with missed_count below 3
C4_MissedLimit ==
    [][IsTickStep
         => /\ raised' = "missed" => game_state'.missed_count >= MissedLimit
            /\ (game_state.missed_count < MissedLimit
                /\ game_state'.missed_count >= MissedLimit) => raised' = "missed"]_vars

\* the third miss ended the game
C4_Witness ==
    /\ raised = "missed"
    /\ game_state.missed_count = MissedLimit
    /\ last_call.result \cap {"food", "bonus"} # {}

\* C7: a Food item of 1 point on the player's cell after the gravity step, with
\* multiplier 1.0, adds exactly 1 to the total score and appends one "food"
C7_FoodCapture ==
    [][(/\ IsTickStep
        /\ OnPlayerCell({"food"})
        /\ AfterGravity.items[PlayerCell].points = 1
        /\ score_manager.multiplier = 100)
         => /\ score_manager'.total_score = score_manager.total_score + 1
            /\ game_state'.collected_items = Append(game_state.collected_items, "food")]_vars

\* the first tick captured a Food item of 1 point
C7_Witness ==
    /\ board.height = 1
    /\ new_items = <<Spawned("food", player.x)>>
    /\ last_call.op = "tick"
    /\ raised = "none"
    /\ game_state.tick_count = 1
    /\ game_state.collected_items = <<"food">>
    /\ score_manager.total_score = 1

\* C11: after every tick, also one that raised GameOver, no item is on the player's
\* cell and no item left on the board is marked collected
C11_CapturedRemoved ==
    last_call.op = "tick"
        => /\ <<player.x, player.y>> \notin DOMAIN board.items
           /\ board.grid[player.y][player.x] = EmptySymbol
           /\ \A p \in DOMAIN board.items : ~board.items[p].collected

\* the second tick captured the Food item spawned in the first, on a board of two
\* rows, and left the item it spawned on the board
C11_Witness ==
    /\ last_call.op = "tick"
    /\ board.height = 2
    /\ game_state.tick_count = 2
    /\ game_state.collected_items = <<"food">>
    /\ DOMAIN board.items # {}

\* C13: lives are never negative and are the configured starting lives or 0 in
\* every state; they change only in a tick that captures a Forbidden item
C13_LivesOnlyForbidden ==
    /\ [](/\ player.lives >= 0
          /\ player.lives \in {config.lives, 0})
    /\ [][player'.lives # player.lives
            => /\ IsTickStep
               /\ OnPlayerCell({"forbidden"})
               /\ raised' = "forbidden"]_vars

\* two lives were kept through a Food capture and a miss and lost to a Forbidden item
C13_Witness ==
    /\ raised = "forbidden"
    /\ config.lives = 2
    /\ player.lives = 0
    /\ score_manager.total_score = 1
    /\ game_state.missed_count = 1

\* the reasons a GameOver carries
GameOverReasons == {"forbidden", "missed", "lives"}

\* C14: a tick executed on a game whose last tick raised GameOver raises GameOver
\* too, so every tick after the first GameOver raises it
C14_GameOverTerminal ==
    [][(IsTickStep /\ raised \in GameOverReasons) => raised' \in GameOverReasons]_vars

\* a tick on a game that was over for its misses raised GameOver again, for more
\* misses, the lives kept
C14_Witness ==
    /\ last_call.op = "tick"
    /\ raised = "missed"
    /\ game_state.missed_count >= MissedLimit + 2
    /\ player.lives = config.lives

\* C16: after construction and after every tick the player's score and
\* GameState.score equal the total score of the ScoreManager, and GameState.level
\* equals the current level of the LevelManager
C16_ScoreLevelMirrors ==
    /\ player.score = score_manager.total_score
    /\ game_state.score = score_manager.total_score
    /\ game_state.level = level_manager.current_level

\* a tick captured a second item and the level has gone up
C16_Witness ==
    /\ last_call.op = "tick"
    /\ raised = "none"
    /\ score_manager.total_score = 2
    /\ Len(game_state.collected_items) = 2
    /\ level_manager.current_level >= 2

\* C17 as stated: after construction and after every tick, also one that raises
\* GameOver by a Forbidden capture, GameState.lives equals the player's lives
C17_AsStated == game_state.lives = player.lives

\* C21: a tick that reaches its end (no Forbidden capture) raises the 3-missed
\* GameOver exactly when missed_count >= 3, whatever the lives, the out-of-lives
\* GameOver exactly when missed_count < 3 and lives <= 0, and otherwise returns
C21_TerminalOrder ==
    (last_call.op = "tick" /\ raised # "forbidden")
        => raised = IF game_state.missed_count >= MissedLimit THEN "missed"
                    ELSE IF player.lives <= 0 THEN "lives"
                    ELSE "none"

\* a tick ended with three misses and no lives, and raised the 3-missed GameOver
C21_Witness ==
    /\ last_call.op = "tick"
    /\ raised = "missed"
    /\ game_state.missed_count >= MissedLimit
    /\ player.lives = 0

\* C26: a tick with a PowerUp on the player's cell after the gravity step adds
\* exactly 1 point, counted under the category "powerup", appends "powerup" to
\* collected_items, mirrors the score to the player and the game state, clears the
\* cell and leaves the multiplier and the active power-up map as they were: the
\* item's own points, duration and effect are not applied
C26_PowerUpCapture ==
    [][(IsTickStep /\ OnPlayerCell({"powerup"}))
         => /\ score_manager'.total_score = score_manager.total_score + 1
            /\ DictGet(score_manager'.stats, "powerup_collected", 0)
                  = DictGet(score_manager.stats, "powerup_collected", 0) + 1
            /\ DictGet(score_manager'.stats, "total_points", 0)
                  = DictGet(score_manager.stats, "total_points", 0) + 1
            /\ DictGet(score_manager'.stats, "food_collected", 0)
                  = DictGet(score_manager.stats, "food_collected", 0)
            /\ game_state'.collected_items = Append(game_state.collected_items, "powerup")
            /\ player'.score = score_manager'.total_score
            /\ game_state'.score = score_manager'.total_score
            /\ PlayerCell \notin DOMAIN board'.items
            /\ board'.grid[player'.y][player'.x] = EmptySymbol
            /\ score_manager'.multiplier = score_manager.multiplier
            /\ game_state'.active_powerups = game_state.active_powerups
            /\ raised' # "forbidden"]_vars

\* a tick captured a PowerUp of 5 points after a Food item
C26_Witness ==
    /\ last_call.op = "tick"
    /\ new_items = <<Spawned("powerup", player.x)>>
    /\ board.height = 1
    /\ game_state.collected_items = <<"food", "powerup">>
    /\ score_manager.total_score = 2
    /\ DictGet(score_manager.stats, "powerup_collected", 0) = 1

\* C30: in a game driven only by ticks the active power-up map stays empty and the
\* multiplier stays 1.0; a tick adds 1 to the total score when it captures a Food,
\* BonusFood or PowerUp item and nothing otherwise, so the total score is the number
\* of such items captured so far, and it equals the length of collected_items
C30_TickOnlyScore ==
    /\ [](/\ game_state.active_powerups = EmptyMap
          /\ score_manager.multiplier = 100
          /\ score_manager.total_score = Len(game_state.collected_items))
    /\ [][IsTickStep
            => score_manager'.total_score - score_manager.total_score
                  = IF OnPlayerCell({"food", "bonus", "powerup"}) THEN 1 ELSE 0]_vars

\* three ticks captured three items, a PowerUp among them
C30_Witness ==
    /\ last_call.op = "tick"
    /\ score_manager.total_score = 3
    /\ Len(game_state.collected_items) = 3
    /\ \E i \in 1..3 : game_state.collected_items[i] = "powerup"
    /\ \E i \in 1..3 : game_state.collected_items[i] = "food"

\* C31: a tick with a Forbidden item on the player's cell after the gravity step
\* raises GameOver before the items that fell off are counted and before the tick
\* counter grows: missed_count, tick_count, the score and the level are after the
\* tick what they were before it, also when a Food item fell off in that tick
C31_ForbiddenBeforeCounts ==
    [][(IsTickStep /\ OnPlayerCell({"forbidden"}))
         => /\ raised' = "forbidden"
            /\ game_state'.missed_count = game_state.missed_count
            /\ game_state'.tick_count = game_state.tick_count
            /\ score_manager'.total_score = score_manager.total_score
            /\ player'.score = player.score
            /\ game_state'.score = game_state.score
            /\ level_manager'.current_level = level_manager.current_level
            /\ game_state'.level = game_state.level]_vars

\* a tick captured a Forbidden item while a Food item fell off the board, after two
\* counted ticks, and no item is counted as missed
C31_Witness ==
    /\ last_call.op = "tick"
    /\ raised = "forbidden"
    /\ "food" \in last_call.result
    /\ game_state.tick_count = 2
    /\ game_state.missed_count = 0

\* the lifetime count of "food" entries in collected_items
FoodCollected(gs) ==
    Cardinality({i \in DOMAIN gs.collected_items : gs.collected_items[i] = "food"})

\* C23, as stated: in every tick that does not end in a Forbidden capture, whether
\* or not the player's cell held an item, the level advances by one when the
\* lifetime count of "food" entries meets the threshold of the current level
C23_AsStated ==
    [][(/\ IsTickStep
        /\ raised' # "forbidden"
        /\ LevelsUp(level_manager, FoodCollected(game_state')))
         => level_manager'.current_level = level_manager.current_level + 1]_vars

(***************************************************************************)
(* Properties of a run (SpecRun).                                          *)
(***************************************************************************)
RunOver == run_state.pc \in {"returned", "raised"}

\* width 3, height 3, lives 1, the only symbol a forbidden one
ForbiddenOnlyGame ==
    /\ config.width = 3
    /\ config.height = 3
    /\ config.lives = 1
    /\ DOMAIN config.allowed_items = {}
    /\ config.forbidden_items = {"x"}

\* every batch of the run was one Forbidden item at the player's column
AllSpawnedAtPlayer ==
    \A i \in DOMAIN run_state.spawned :
        run_state.spawned[i] = <<ForbiddenItem(player.x, 0, "x", DefaultDamage)>>

\* C2 as stated: in that game run(moves=[""], max_ticks=1) raises GameOver and
\* leaves lives = 0
C2_AsStated ==
    (/\ RunOver
     /\ ForbiddenOnlyGame
     /\ run_state.moves = <<"">>
     /\ run_state.max_ticks = 1
     /\ AllSpawnedAtPlayer)
        => /\ run_state.pc = "raised"
           /\ raised \in GameOverReasons
           /\ player.lives = 0

\* C2, amended: the item spawned in the first tick is at row 0 after it and reaches
\* the player's row in the third tick, so run(moves=[""], max_ticks) raises GameOver
\* (the Forbidden capture, lives = 0) exactly when max_ticks >= 3, the height, and
\* otherwise returns with lives = 1
C2_ForbiddenRun ==
    (/\ RunOver
     /\ ForbiddenOnlyGame
     /\ run_state.moves = <<"">>
     /\ AllSpawnedAtPlayer)
        => IF run_state.max_ticks >= config.height
           THEN /\ run_state.pc = "raised"
                /\ raised = "forbidden"
                /\ player.lives = 0
                /\ Len(run_state.spawned) = config.height
           ELSE /\ run_state.pc = "returned"
                /\ raised = "none"
                /\ player.lives = 1

\* the run of three ticks ended in the capture of the first item
C2_Witness ==
    /\ RunOver
    /\ ForbiddenOnlyGame
    /\ run_state.moves = <<"">>
    /\ run_state.max_ticks = 3
    /\ AllSpawnedAtPlayer
    /\ Len(run_state.spawned) = 3
    /\ raised = "forbidden"

\* no symbol is configured and the drop chance is 0
EmptyGame ==
    /\ DOMAIN config.allowed_items = {}
    /\ config.forbidden_items = {}
    /\ run_state.drop_chance = 0
    /\ config.lives > 0

\* C8: with empty symbol sets, drop chance 0 and positive lives,
\* run(moves=["", "", ""], max_ticks=3) returns with score 0, the starting lives and
\* level 1
C8_EmptyRun ==
    (/\ RunOver
     /\ EmptyGame
     /\ run_state.moves = <<"", "", "">>
     /\ run_state.max_ticks = 3)
        => /\ run_state.pc = "returned"
           /\ raised = "none"
           /\ score_manager.total_score = 0
           /\ player.lives = config.lives
           /\ level_manager.current_level = 1
           /\ game_state.tick_count = 3

\* such a run has returned, on the 3x3 board with two lives
C8_Witness ==
    /\ run_state.pc = "returned"
    /\ EmptyGame
    /\ run_state.moves = <<"", "", "">>
    /\ run_state.max_ticks = 3
    /\ config.width = 3
    /\ config.lives = 2
    /\ game_state.tick_count = 3

\* C12: the player's x stays in [0, width) and the player's y stays height - 1; the
\* move of a tick changes x by -1 for "L" off the left edge, by +1 for "R" off the
\* right edge, and by nothing at an edge or for the empty move, and changes nothing
\* else of the player's position
C12_PlayerInBounds ==
    /\ [](/\ player.x \in 0..(board.width - 1)
          /\ player.y = board.height - 1)
    /\ [][last_call'.op = "tick"
            => LET move == NextMove(run_state)
               IN /\ player'.x = CASE move = "L" /\ player.x > 0 -> player.x - 1
                                    [] move = "R" /\ player.x < board.width - 1 -> player.x + 1
                                    [] OTHER -> player.x
                  /\ player'.y = player.y]_vars

\* on the board of width 3 the second "L" of a run met the left edge
C12_Witness ==
    /\ last_call.op = "tick"
    /\ board.width = 3
    /\ run_state.moves = <<"L", "L">>
    /\ Len(run_state.spawned) = 2
    /\ raised = "none"
    /\ player.x = 0

\* the iterations of the loop of run that have called _tick
TicksExecuted == Len(run_state.spawned)

\* the column of a player who starts in the middle column and makes the first k
\* moves of the sequence, the empty move where the sequence has ended
RECURSIVE ColumnAfter(_, _, _)
ColumnAfter(moves, k, width) ==
    IF k = 0 THEN width \div 2
    ELSE LET x == ColumnAfter(moves, k - 1, width)
             move == IF k <= Len(moves) THEN moves[k] ELSE ""
         IN CASE move = "L" /\ x > 0 -> x - 1
              [] move = "R" /\ x < width - 1 -> x + 1
              [] OTHER -> x

\* C15 as stated: a run that is over and met no GameOver has executed exactly
\* max_ticks ticks
C15_AsStated ==
    (RunOver /\ raised \notin GameOverReasons)
        => /\ TicksExecuted = run_state.max_ticks
           /\ game_state.tick_count = run_state.max_ticks

\* C15, the part that holds of run: a run that returns has executed exactly max_ticks
\* ticks and the tick counter has grown by max_ticks; tick i applies the i-th move,
\* the empty move once the sequence is exhausted; a run ended by GameOver stops at
\* the tick that raised it (the tick counter does not count a tick ended by a
\* Forbidden capture); and a run ends early without GameOver only by the IndexError
\* of the spawn stream, raised when it has no symbol to choose from and a positive
\* drop chance
C15_RunTicks ==
    /\ run_state.pc = "returned"
          => /\ raised = "none"
             /\ TicksExecuted = run_state.max_ticks
             /\ game_state.tick_count = run_state.max_ticks
    /\ run_state.pc # "idle"
          => /\ player.x = ColumnAfter(run_state.moves, TicksExecuted, board.width)
             /\ TicksExecuted <= run_state.max_ticks
    /\ (run_state.pc = "raised" /\ raised \in GameOverReasons)
          => /\ run_state.ticks_left = run_state.max_ticks - TicksExecuted
             /\ game_state.tick_count =
                   IF raised = "forbidden" THEN TicksExecuted - 1 ELSE TicksExecuted
    /\ (run_state.pc = "raised" /\ raised \notin GameOverReasons)
          => /\ raised = "IndexError"
             /\ DOMAIN config.allowed_items \cup config.forbidden_items = {}
             /\ run_state.drop_chance > 0

\* a run of three ticks with the single move "R" has returned from the board of
\* width 3: the second and third tick applied the empty move
C15_Witness ==
    /\ run_state.pc = "returned"
    /\ board.width = 3
    /\ run_state.moves = <<"R">>
    /\ run_state.max_ticks = 3
    /\ game_state.tick_count = 3
    /\ player.x = 2

\* the items of a batch, each with its place in the batch
Entries(batch) == {<<i, batch[i]>> : i \in DOMAIN batch}

\* the items of a batch that the gravity step leaves on the board: of two items in
\* one column, the later
Placed(batch) ==
    {ie \in Entries(batch) : \A m \in DOMAIN batch : m > ie[1] => batch[m].x # ie[2].x}

\* the player's column after the move of tick n of the run
ColumnAt(n) == ColumnAfter(run_state.moves, n, board.width)

\* the items handed to tick t of the run, none before the first tick
HandedIn(t) == IF t \in DOMAIN run_state.spawned THEN Entries(run_state.spawned[t]) ELSE {}

\* the items the gravity step of tick t left on the board
PlacedIn(t) == IF t \in DOMAIN run_state.spawned THEN Placed(run_state.spawned[t]) ELSE {}

\* after n ticks of a run (the n-th may have raised GameOver), each item of
\* SpawnedIn(t) is at row n - t while n - t < height - 1; in tick t + height - 1 it
\* is captured exactly when the player's column after the move of that tick is its
\* column, and otherwise it stays in the player's row; it falls off and is counted
\* as missed in tick t + height, whatever the player's column in that tick
ItemTrajectory(SpawnedIn(_)) ==
    LET n == TicksExecuted
        h == board.height
        food == {"food", "bonus"}
        all == UNION {{<<t, ie[1], ie[2]>> : ie \in SpawnedIn(t)} : t \in 1..n}
        onBoard == {s \in all : /\ n - s[1] <= h - 1
                                /\ n - s[1] = h - 1 => s[3].x # ColumnAt(n)}
        captured == {s \in all : /\ s[1] + h - 1 <= n
                                 /\ s[3].x = ColumnAt(s[1] + h - 1)}
        counted == IF raised = "forbidden" THEN n - 1 ELSE n
        missed == {s \in all : /\ s[1] + h <= counted
                               /\ s[3].x # ColumnAt(s[1] + h - 1)}
    IN /\ DOMAIN board.items = {<<s[3].x, n - s[1]>> : s \in onBoard}
       /\ \A s \in onBoard :
             /\ board.items[<<s[3].x, n - s[1]>>].kind = s[3].kind
             /\ board.items[<<s[3].x, n - s[1]>>].symbol = s[3].symbol
       /\ game_state.collected_items =
             [i \in 1..Cardinality({s \in captured : s[3].kind \in food}) |-> "food"]
       /\ (raised = "forbidden") <=> (\E s \in captured : s[3].kind = "forbidden")
       /\ game_state.missed_count = Cardinality({s \in missed : s[3].kind \in food})

\* C27, as stated: every item handed to a tick of the run as spawned at row 0 makes
\* that way: a row per tick, captured in tick t + height - 1 exactly when the
\* player's column is its column, otherwise missed in tick t + height
C27_AsStated == ItemTrajectory(HandedIn)

\* C27, the part that holds of run: the items the gravity step left on the board
\* make that way; of two items of one batch in one column only the later does
C27_PlacedTrajectory == ItemTrajectory(PlacedIn)

\* on the 2x2 board the Food item spawned in the first tick in the column left of
\* the player was not captured in the second tick and was missed in the third,
\* although the player moved onto its column in the third
C27_Witness ==
    /\ board.width = 2
    /\ board.height = 2
    /\ TicksExecuted = 3
    /\ run_state.moves = <<"", "", "L">>
    /\ run_state.spawned[1] = <<FoodItem(0, 0, "f", 1)>>
    /\ player.x = 0
    /\ game_state.missed_count = 1
    /\ game_state.collected_items = <<>>

\* C28, as stated, for the runs that were handed Food items only: after every tick
\* the number of items handed to the ticks as spawned is the number of items on the
\* board plus the number captured plus the number missed
C28_AsStated ==
    (\A t \in DOMAIN run_state.spawned : \A ie \in HandedIn(t) : ie[2].kind = "food")
        => Cardinality(UNION {{<<t, ie[1]>> : ie \in HandedIn(t)} :
                                t \in DOMAIN run_state.spawned})
              = Cardinality(DOMAIN board.items)
                + Len(game_state.collected_items)
                + game_state.missed_count

\* C32, as stated: in a run of a game with no item catalog and no level catalog,
\* once an item was captured the drop chance in the game's configuration is
\* min(configured drop chance + (level - 1) * 0.05, 0.9), in hundredths, and so not
\* below the configured drop chance, which the run took as the chance of its stream
C32_AsStated ==
    (/\ run_state.pc # "idle"
     /\ ~config.has_item_factory
     /\ ~config.has_levels_config
     /\ game_state.collected_items # <<>>)
        => /\ config.drop_chance
                 = Min(run_state.drop_chance + (level_manager.current_level - 1) * 5, 90)
           /\ config.drop_chance >= run_state.drop_chance

\* C24, as stated: in a run of a game without an item catalog, after a tick that
\* changes the drop chance of the Level Manager the spawn stream of the run uses the
\* new drop chance for the next tick
C24_AsStated ==
    [][(/\ last_call'.op = "tick"
        /\ run_state'.pc = "running"
        /\ ~config.has_item_factory
        /\ get_drop_chance(level_manager') # get_drop_chance(level_manager))
         => run_state'.drop_chance = get_drop_chance(level_manager')]_vars

(***************************************************************************)
(* The components on their own.  In these specifications the variables of  *)
(* the game that the component does not touch keep the values below.       *)
(***************************************************************************)
NoGame ==
    /\ config = PlainConfig(1, 1, 1, 0)
    /\ player = NewPlayer(0, 0)
    /\ game_state = NewGameState
    /\ run_state = NoRun
    /\ new_items = <<>>
    /\ raised = "none"
    /\ last_call = Call("init", 0, 0)

(***************************************************************************)
(* SpecLevel: a LevelManager, with or without a level catalog, and calls   *)
(* of check_level_up_by_items with any total.                              *)
(***************************************************************************)
\* a catalog entry as load_levels_config builds it
LevelEntry(items_required, drop_chance) ==
    [k \in {"items_required", "drop_chance"} |->
        IF k = "items_required" THEN items_required ELSE drop_chance]

\* level catalogs: empty; two levels with small thresholds; thresholds of 0; an
\* entry for level 2 only.  The keys are the level numbers (str(level) in the source)
LevelCatalogs ==
    {EmptyMap,
     [l \in {1, 2} |-> LevelEntry(3 - l, 30)],
     [l \in {1, 2, 3} |-> LevelEntry(0, 50)],
     [l \in {2} |-> LevelEntry(3, 80)]}

\* the base drop chances a configuration gives, in hundredths
BaseDropChances == {50, 88}

InitLevel ==
    /\ NoGame
    /\ board = NewBoard(1, 1)
    /\ score_manager = NewScoreManager
    /\ \/ level_manager = NewLevelManager
       \/ \E cat \in LevelCatalogs :
             level_manager = load_config(NewLevelManager, [k \in {"levels"} |-> cat])
       \/ \E cat \in LevelCatalogs, base \in BaseDropChances :
             level_manager =
                 load_config(NewLevelManager,
                             [k \in {"levels", "base_drop_chance"} |->
                                 IF k = "levels" THEN cat ELSE base])

CheckLevelUp ==
    /\ level_manager.current_level < MaxLevel
    /\ \E total \in 0..MaxTotal :
          /\ level_manager' = check_level_up_by_items(level_manager, total)
          /\ last_call' = Call("check_level_up_by_items", total,
                               LevelsUp(level_manager, total))
    /\ UNCHANGED <<config, board, player, game_state, score_manager, run_state,
                   new_items, raised>>

NextLevel == CheckLevelUp

SpecLevel == InitLevel /\ [][NextLevel]_vars

\* the lifetime total at which level n is complete when every threshold is the
\* default 5 + (i - 1) * 2: 5, 12, 21, ...
RECURSIVE CumulativeBoundary(_)
CumulativeBoundary(n) == IF n < 1 THEN 0 ELSE 5 + (n - 1) * 2 + CumulativeBoundary(n - 1)

\* the total of the call before this one (0 before the first call)
PreviousTotal == IF last_call.op = "check_level_up_by_items" THEN last_call.arg ELSE 0

\* C5 as stated: with no level catalog and a non-decreasing total, a call takes the
\* level from N to N + 1 exactly when the total has reached the cumulative boundary
\* of level N (5, 12, 21, ...); below 5 the level stays 1
C5_AsStated ==
    [][(/\ last_call'.op = "check_level_up_by_items"
        /\ level_manager.levels_config = EmptyMap
        /\ last_call'.arg >= PreviousTotal)
         => level_manager'.current_level =
               IF last_call'.arg >= CumulativeBoundary(level_manager.current_level)
               THEN level_manager.current_level + 1
               ELSE level_manager.current_level]_vars

\* C6: the level starts at 1 and a call of check_level_up_by_items raises it by at
\* most 1 and never lowers it, for every total and every catalog
C6_SingleStep ==
    /\ level_manager.current_level = 1
    /\ [][level_manager'.current_level - level_manager.current_level \in {0, 1}]_vars

\* C25: get_drop_chance is min(b + (L - 1) * 0.05, 0.9), in hundredths, where L is the
\* current level and b is the drop chance of the catalog entry of level L if it has
\* one, otherwise the configured base drop chance, otherwise 0.3; so never above 0.9
C25_DropChance ==
    LET L == level_manager.current_level
        b == IF L \in DOMAIN level_manager.levels_config
                /\ "drop_chance" \in DOMAIN level_manager.levels_config[L]
             THEN level_manager.levels_config[L]["drop_chance"]
             ELSE IF "base_drop_chance" \in DOMAIN level_manager.config
             THEN level_manager.config["base_drop_chance"]
             ELSE 30
        uncapped == b + (L - 1) * 5
    IN /\ get_drop_chance(level_manager) = IF uncapped < 90 THEN uncapped ELSE 90
       /\ get_drop_chance(level_manager) <= 90

\* a level-up took the manager to a level without a catalog entry whose chance, from
\* the configured base 0.88, is held at the cap
C25_Witness ==
    /\ last_call.op = "check_level_up_by_items"
    /\ level_manager.current_level >= 2
    /\ level_manager.current_level \notin DOMAIN level_manager.levels_config
    /\ "base_drop_chance" \in DOMAIN level_manager.config
    /\ level_manager.config["base_drop_chance"] + (level_manager.current_level - 1) * 5 > 90
    /\ get_drop_chance(level_manager) = 90

\* a call advanced the level with a total that also meets the threshold of the level
\* it advanced to
C6_Witness ==
    /\ last_call.op = "check_level_up_by_items"
    /\ last_call.result = TRUE
    /\ level_manager.current_level = 2
    /\ LevelsUp(level_manager, last_call.arg)

(***************************************************************************)
(* SpecScore: a ScoreManager without observers, and calls of add_points,   *)
(* set_multiplier and reset_combo.                                         *)
(***************************************************************************)
\* multipliers handed to set_multiplier: -1.0, 0.5, 1.0, 1.5, 2.5
Multipliers == {-100, 50, 100, 150, 250}

\* the add_points calls made so far
CallsMade(sm) ==
    DictGet(sm.stats, "food_collected", 0) + DictGet(sm.stats, "powerup_collected", 0)

InitScore ==
    /\ NoGame
    /\ board = NewBoard(1, 1)
    /\ level_manager = NewLevelManager
    /\ score_manager = NewScoreManager

AddPoints ==
    /\ CallsMade(score_manager) < MaxCalls
    /\ \E points \in (-1)..MaxPoints, item_type \in {"food", "powerup"} :
          /\ score_manager' = add_points(score_manager, points, item_type)
          /\ last_call' = Call("add_points", points, 0)
    /\ UNCHANGED <<config, board, player, game_state, level_manager, run_state,
                   new_items, raised>>

SetMultiplier ==
    /\ \E multiplier \in Multipliers :
          /\ score_manager' = set_multiplier(score_manager, multiplier)
          /\ last_call' = Call("set_multiplier", multiplier, 0)
    /\ UNCHANGED <<config, board, player, game_state, level_manager, run_state,
                   new_items, raised>>

ResetCombo ==
    /\ score_manager' = reset_combo(score_manager)
    /\ last_call' = Call("reset_combo", 0, 0)
    /\ UNCHANGED <<config, board, player, game_state, level_manager, run_state,
                   new_items, raised>>

NextScore == AddPoints \/ SetMultiplier \/ ResetCombo

SpecScore == InitScore /\ [][NextScore]_vars

\* C9: no call of set_multiplier or reset_combo, and no call of add_points with
\* points >= 0, lowers the total score
C9_ScoreMonotonic ==
    [][(last_call'.op = "add_points" => last_call'.arg >= 0)
         => score_manager'.total_score >= score_manager.total_score]_vars

\* points were added under a multiplier above 1.0 after set_multiplier calls
C9_Witness ==
    /\ last_call.op = "add_points"
    /\ last_call.arg = 1
    /\ score_manager.multiplier = 250
    /\ score_manager.total_score = 3

(***************************************************************************)
(* SpecBoard: a Board, and calls of reset, _place, clear_cell, drop_items. *)
(***************************************************************************)
Positions(b) == (0..(b.width - 1)) \X (0..(b.height - 1))

\* an entity of any kind at any cell of the board
Entities(b) == {[Spawned(k, p[1]) EXCEPT !.y = p[2]] : k \in ItemKinds, p \in Positions(b)}

InitBoard ==
    /\ NoGame
    /\ score_manager = NewScoreManager
    /\ level_manager = NewLevelManager
    /\ \E width \in 1..MaxCells, height \in 1..MaxCells :
          /\ width * height <= MaxCells
          /\ board = NewBoard(width, height)

BoardFrame ==
    UNCHANGED <<config, player, game_state, score_manager, level_manager, run_state, raised>>

BoardReset ==
    /\ board' = reset(board)
    /\ new_items' = <<>>
    /\ last_call' = Call("reset", 0, 0)
    /\ BoardFrame

BoardPlace ==
    /\ \E e \in Entities(board) : board' = place(board, e)
    /\ new_items' = <<>>
    /\ last_call' = Call("_place", 0, 0)
    /\ BoardFrame

BoardClearCell ==
    /\ \E p \in Positions(board) : board' = clear_cell(board, p[1], p[2])
    /\ new_items' = <<>>
    /\ last_call' = Call("clear_cell", 0, 0)
    /\ BoardFrame

\* the batches handed to drop_items: up to one item of any kind, or two items of the
\* kinds the spawn stream builds (in the same column or not)
BoardBatches(b) ==
    Batches(b.width, ItemKinds, 1) \cup Batches(b.width, {"food", "forbidden"}, 2)

BoardDropItems ==
    /\ \E batch \in BoardBatches(board) :
          /\ board' = drop_items(board, batch)
          /\ new_items' = batch
    /\ last_call' = Call("drop_items", 0, FallenKinds(board))
    /\ BoardFrame

NextBoard == BoardReset \/ BoardPlace \/ BoardClearCell \/ BoardDropItems

SpecBoard == InitBoard /\ [][NextBoard]_vars

\* C10: a cell of the grid holds a non-empty symbol exactly when its position is a
\* key of the item mapping, and the symbol is the mapped item's symbol
C10_GridMatchesItems ==
    /\ DOMAIN board.items \subseteq Positions(board)
    /\ \A p \in Positions(board) :
          /\ board.grid[p[2]][p[1]] # EmptySymbol <=> p \in DOMAIN board.items
          /\ p \in DOMAIN board.items => board.grid[p[2]][p[1]] = board.items[p].symbol

\* a gravity step dropped an item off the board, advanced another and placed a batch
C10_Witness ==
    /\ last_call.op = "drop_items"
    /\ last_call.result # {}
    /\ new_items # <<>>
    /\ \E p \in DOMAIN board.items : p[2] >= 1
    /\ \E p \in Positions(board) : p \notin DOMAIN board.items

\* the items of the batch are in different columns
DistinctColumns(batch) ==
    \A i, j \in DOMAIN batch : i # j => batch[i].x # batch[j].x

\* the positions of the items that stay on the board in a gravity step
Staying(b) == {p \in DOMAIN b.items : p[2] + 1 < b.height}

\* the items of the last row
LastRow(b) == {b.items[p] : p \in {q \in DOMAIN b.items : q[2] = b.height - 1}}

\* C19: drop_items with spawned items at distinct cells of row 0: afterwards the keys
\* of the item mapping are (x, y + 1) for every former item at (x, y) with
\* y + 1 < height, and the cells of the spawned items; the item at (x, y + 1) is of
\* the kind and symbol of the former item at (x, y) and carries its new position;
\* every spawned item is in the mapping and in the grid at its own cell; and the
\* items returned (the call records their kinds) are exactly the former items of
\* the last row
C19_AdvanceItems ==
    [][(last_call'.op = "drop_items" /\ DistinctColumns(new_items'))
         => /\ DOMAIN board'.items =
                  {<<p[1], p[2] + 1>> : p \in Staying(board)}
                  \cup {<<new_items'[i].x, 0>> : i \in DOMAIN new_items'}
            /\ \A p \in Staying(board) :
                  LET old == board.items[p]
                      new == board'.items[<<p[1], p[2] + 1>>]
                  IN /\ new.kind = old.kind
                     /\ new.symbol = old.symbol
                     /\ <<new.x, new.y>> = <<p[1], p[2] + 1>>
            /\ \A i \in DOMAIN new_items' :
                  /\ board'.items[<<new_items'[i].x, 0>>] = new_items'[i]
                  /\ board'.grid[0][new_items'[i].x] = new_items'[i].symbol
            /\ Missed(board) = LastRow(board)
            /\ last_call'.result = {e.kind : e \in LastRow(board)}]_vars

\* a gravity step on the 2x2 board returned the item of the last row, advanced the
\* item of row 0 of the same column and placed two spawned items, one of them on
\* the cell the advanced item had left
C19_Witness ==
    /\ last_call.op = "drop_items"
    /\ board.width = 2
    /\ board.height = 2
    /\ Len(new_items) = 2
    /\ DistinctColumns(new_items)
    /\ Cardinality(last_call.result) = 1
    /\ DOMAIN board.items = {<<0, 0>>, <<1, 0>>, <<0, 1>>}

\* C20 as stated: an item that stays on the board in a gravity step is, after the
\* step, the same item one row down: same kind, column, symbol, points, damage,
\* duration, remaining time and effect
C20_AsStated ==
    [][last_call'.op = "drop_items"
         => \A p \in Staying(board) :
               board'.items[<<p[1], p[2] + 1>>] = [board.items[p] EXCEPT !.y = p[2] + 1]]_vars

(***************************************************************************)
(* Properties of the power-ups (SpecPower).                                *)
(***************************************************************************)
\* the timer of the active power-up of a key
TimerOf(gs, k) == gs.active_powerups[k].timer

\* C22: in a tick an active power-up whose timer is 2 or more stays in the map with
\* its timer one less, and one whose timer is 1 is removed, so a power-up of timer
\* d stays for d - 1 ticks and goes in the d-th; no tick adds a key; the multiplier
\* is 1.0 after a tick that removes the key "multiplier" and unchanged after any
\* other tick
C22_PowerUpExpiry ==
    [][IsTickStep
         => /\ \A k \in DOMAIN game_state.active_powerups :
                  IF TimerOf(game_state, k) >= 2
                  THEN /\ k \in DOMAIN game_state'.active_powerups
                       /\ TimerOf(game_state', k) = TimerOf(game_state, k) - 1
                  ELSE k \notin DOMAIN game_state'.active_powerups
            /\ DOMAIN game_state'.active_powerups \subseteq DOMAIN game_state.active_powerups
            /\ score_manager'.multiplier =
                  IF /\ "multiplier" \in DOMAIN game_state.active_powerups
                     /\ TimerOf(game_state, "multiplier") = 1
                  THEN 100
                  ELSE score_manager.multiplier]_vars

\* a tick removed the "multiplier" power-up and reset the multiplier, and kept the
\* "speed" power-up, whose timer went from 2 to 1
C22_Witness ==
    /\ last_call.op = "tick"
    /\ last_call.arg = {"multiplier"}
    /\ score_manager.multiplier = 100
    /\ DOMAIN game_state.active_powerups = {"speed"}
    /\ TimerOf(game_state, "speed") = 1

\* C29, as stated: a tick, also one in which a "multiplier" power-up expires and the
\* multiplier is reset, appends to collected_items only the tag of the item it
\* captures, "food" or "powerup", and nothing when it captures none
C29_AsStated ==
    [][IsTickStep
         => game_state'.collected_items =
               IF OnPlayerCell({"food", "bonus"})
               THEN Append(game_state.collected_items, "food")
               ELSE IF OnPlayerCell({"powerup"})
               THEN Append(game_state.collected_items, "powerup")
               ELSE game_state.collected_items]_vars

(***************************************************************************)
(* SpecState: a GameState of any content, and calls of to_dict on it and   *)
(* of from_dict, with the dict obtained, on a new GameState.               *)
(***************************************************************************)
\* the entries of collected_items: the categories of add_points and the "unknown"
\* of an event without item_type
ItemTypes == {"food", "powerup", "unknown"}

GameStates ==
    [score : 0..MaxPoints,
     lives : 0..DefaultLives,
     level : 1..2,
     tick_count : 0..1,
     missed_count : 0..1,
     collected_items : UNION {[1..n -> ItemTypes] : n \in 0..2},
     active_powerups : {EmptyMap,
                        [k \in {"multiplier"} |->
                            PowerUpItem(0, 0, "p", DefaultPowerUpPoints, 3, "multiplier")]}]

InitState ==
    /\ config = PlainConfig(1, 1, 1, 0)
    /\ board = NewBoard(1, 1)
    /\ player = NewPlayer(0, 0)
    /\ score_manager = NewScoreManager
    /\ level_manager = NewLevelManager
    /\ run_state = NoRun
    /\ new_items = <<>>
    /\ raised = "none"
    /\ last_call = Call("init", 0, 0)
    /\ game_state \in GameStates

StateFrame ==
    UNCHANGED <<config, board, player, score_manager, level_manager, run_state,
                new_items, raised>>

\* data = game_state.to_dict()
ToDict ==
    /\ last_call.op # "to_dict"
    /\ last_call' = Call("to_dict", 0, to_dict(game_state))
    /\ UNCHANGED game_state
    /\ StateFrame

\* GameState().from_dict(data), the new GameState taking the place of the old
FromDict ==
    /\ last_call.op = "to_dict"
    /\ game_state' = from_dict(NewGameState, last_call.result)
    /\ last_call' = Call("from_dict", last_call.result, 0)
    /\ StateFrame

NextState == ToDict \/ FromDict

SpecState == InitState /\ [][NextState]_vars

\* C18: from_dict on a new GameState with the dict that to_dict made of a GameState
\* gives the same score, lives, level, tick count, missed count and collected_items
\* (same order) as that GameState
C18_RoundTrip ==
    [][last_call'.op = "from_dict"
         => /\ game_state'.score = game_state.score
            /\ game_state'.lives = game_state.lives
            /\ game_state'.level = game_state.level
            /\ game_state'.tick_count = game_state.tick_count
            /\ game_state'.missed_count = game_state.missed_count
            /\ game_state'.collected_items = game_state.collected_items]_vars

\* a GameState with one life, two collected items and an active power-up went
\* through the dict
C18_Witness ==
    /\ last_call.op = "from_dict"
    /\ last_call.arg["active_powerups"] = {"multiplier"}
    /\ game_state.lives = 1
    /\ game_state.score = 2
    /\ game_state.level = 2
    /\ game_state.collected_items = <<"food", "unknown">>
    /\ game_state.active_powerups = EmptyMap

====
